---- MODULE Spec2Model ----
(***************************************************************************)
(* MedPerf client: entity reconciliation (Dataset, Benchmark, Result),     *)
(* dataset-benchmark association and the compatibility test.               *)
(*                                                                         *)
(* The registry (config.comms / Server) is the external collaborator: a    *)
(* call either returns records or raises CommunicationRetrievalError.      *)
(* Whether it is reachable is an input of every operation (up).            *)
(* The storage roots exist (the client creates them when it starts), so    *)
(* os.walk always yields the directory listing.                            *)
(***************************************************************************)
EXTENDS Integers, Sequences, FiniteSets, TLC

\* ---------------------------------------------------------------- bounds
\* registry-assigned identifiers are 1..MaxId
MaxId == 3

\* the clock (int(time())) of a compatibility test reads 0..MaxClock
MaxClock == 1
\* temporary benchmarks left in the benchmarks storage
MaxTmp == 1
\* associations the registry holds
MaxAssoc == 2
\* reports the registry holds
MaxReport == 2

\* ------------------------------------------------------------- constants
\* Python's None for an integer identifier
None == -1
\* Python's None for a string argument
NoneStr == "<None>"
\* the current user (get_medperf_user_data()["id"]) and somebody else
Me == "me"
Other == "other"
USERS == {Me, Other}
\* fingerprints (generated_uid) of locally prepared datasets; never digits
FPS == {"fa", "fb"}
\* config.tmp_prefix: the reserved prefix of temporary identifiers
tmp_prefix == "tmp_"
\* config.test_cube_prefix: the prefix of the uid of a linked local cube
test_cube_prefix == "test_"

\* a cube reference: a registered cube's uid, or the path of a local cube
Cube(c) == [uid |-> c, path |-> ""]
PathCube(p) == [uid |-> None, path |-> p]
NoCube == [uid |-> None, path |-> ""]

IDS == 1..MaxId
IdSeq == [i \in 1..MaxId |-> i]

\* str(int), str.isdigit() and int(str) for the one-digit numbers in use
Digits == <<"0", "1", "2", "3", "4", "5", "6", "7", "8", "9">>
Str(i) == Digits[i + 1]
IsDigit(s) == \E i \in 0..9 : Digits[i + 1] = s
ToInt(s) == CHOOSE i \in 0..9 : Digits[i + 1] = s

\* Python truthiness of an identifier: None and 0 are falsy
Truthy(id) == id # None /\ id # 0

Max(S) == CHOOSE m \in S : \A n \in S : n <= m
EmptyFn == [k \in {} |-> 0]
Put(f, k, v) == (k :> v) @@ f

\* the configuration file as installed: the default profile, nothing set
DefaultProfiles == [n \in {"default"} |-> [k \in {} |-> ""]]

VARIABLES
    dsetRegistry,   \* registry: dataset id -> dataset record
    dataStorage,    \* local data storage: directory name -> registration record
    bmkRegistry,    \* registry: benchmark id -> benchmark record
    bmkStorage,     \* local benchmarks storage: directory name -> record
    cubeLinks,      \* cubes storage: temporary cube uid -> linked local path
    assocs,         \* registry: association id -> association record
    reportMetadata, \* staging storage: (name, cube) -> stored report metadata
    reportRegistry, \* registry: report id -> the (name, cube) it was sent for
    profiles,       \* configuration file: profile name -> its parameters
    last            \* the last operation: its inputs, outcome and registry calls

vars ==
    <<dsetRegistry, dataStorage, bmkRegistry, bmkStorage, cubeLinks, assocs,
      reportMetadata, reportRegistry, profiles, last>>

\* the record of one operation
Op(op, kind, key, local_only, filters, up, status, ents, calls) ==
    [op |-> op, kind |-> kind, key |-> key, local_only |-> local_only,
     filters |-> filters, up |-> up, status |-> status, ents |-> ents,
     calls |-> calls]

NoFilters == [owner |-> "", mlcube |-> NoCube]
Ent(rec, src) == [rec |-> rec, src |-> src]

\* =================================================================
\* Dataset (entities/dataset.py)
\* =================================================================

\* a dataset as the registry holds it at the start
DsetMeta(i) ==
    [id |-> i, generated_uid |-> "g" \o Str(i), for_test |-> FALSE,
     owner |-> IF i % 2 = 1 THEN Me ELSE Other,
     data_preparation_mlcube |-> Cube(1 + (i % 2))]

\* a locally prepared dataset that has no registry identifier yet
LocalDset(fp, for_test) ==
    [id |-> None, generated_uid |-> fp, for_test |-> for_test,
     owner |-> Me, data_preparation_mlcube |-> Cube(1)]

\* Dataset.__init__: the directory of the dataset
DatasetPath(d) == IF Truthy(d.id) THEN Str(d.id) ELSE d.generated_uid

\* directory names in listing order
DataKeySeq ==
    [i \in 1..MaxId |-> Str(i)] \o <<"fa", "fb", tmp_prefix \o "fa">>

\* Dataset.write
DatasetWrite(storage, d) == Put(storage, DatasetPath(d), d)

\* Dataset.__get_local_dict + Dataset.__local_get
DatasetLocalGet(storage, uid) ==
    IF uid \in DOMAIN storage
    THEN [status |-> "ok", ents |-> <<Ent(storage[uid], "local")>>]
    ELSE [status |-> "InvalidArgumentError", ents |-> <<>>]

\* Dataset.__local_all
DatasetLocalAll(storage) ==
    LET uids == SelectSeq(DataKeySeq, LAMBDA k : k \in DOMAIN storage)
    IN  [j \in 1..Len(uids) |-> Ent(storage[uids[j]], "local")]

\* config.comms.get_datasets / get_user_datasets / get_mlcube_datasets
CommsListDatasets(reg, fn, cube) ==
    LET keep(i) == /\ i \in DOMAIN reg
                   /\ fn = "get_user_datasets" => reg[i].owner = Me
                   /\ fn = "get_mlcube_datasets" =>
                          reg[i].data_preparation_mlcube = cube
        ids == SelectSeq(IdSeq, keep)
    IN  [j \in 1..Len(ids) |-> reg[ids[j]]]

\* Dataset.__remote_prefilter: the comms function the filters select
DatasetRemotePrefilter(filters) ==
    IF filters.mlcube # NoCube THEN "get_mlcube_datasets"
    ELSE IF filters.owner # "" /\ filters.owner = Me THEN "get_user_datasets"
    ELSE "get_datasets"

\* Dataset.__remote_all: a retrieval error leaves the list empty
DatasetRemoteAll(reg, filters, up) ==
    IF up
    THEN LET metas == CommsListDatasets(reg, DatasetRemotePrefilter(filters),
                                        filters.mlcube)
         IN  [j \in 1..Len(metas) |-> Ent(metas[j], "remote")]
    ELSE <<>>

\* mutants of DatasetKeepLocal: every local entity is appended; the test
\* is inverted
DatasetKeepLocal_All(e, remote_uids) == TRUE
DatasetKeepLocal_Inverted(e, remote_uids) == e.rec.id \in remote_uids

\* Dataset.all, line 120: the local entities appended to the remote ones
DatasetKeepLocal(e, remote_uids) == e.rec.id \notin remote_uids

\* Dataset.all
DatasetAllResult(reg, storage, local_only, filters, up) ==
    LET dsets == IF ~local_only THEN DatasetRemoteAll(reg, filters, up) ELSE <<>>
        remote_uids == {dsets[j].rec.id : j \in 1..Len(dsets)}
        local_dsets == DatasetLocalAll(storage)
    IN  dsets \o SelectSeq(local_dsets,
                           LAMBDA e : DatasetKeepLocal(e, remote_uids))

\* the registry calls Dataset.all makes
DatasetAllCalls(local_only, filters) ==
    IF ~local_only THEN <<DatasetRemotePrefilter(filters)>> ELSE <<>>

DatasetAll(local_only, filters, up) ==
    /\ local_only => up /\ filters = NoFilters
    /\ last' = Op("all", "Dataset", "", local_only, filters, up, "ok",
                  DatasetAllResult(dsetRegistry, dataStorage, local_only,
                                   filters, up),
                  DatasetAllCalls(local_only, filters))
    /\ UNCHANGED <<dsetRegistry, dataStorage, bmkRegistry, bmkStorage, cubeLinks, assocs,
                   reportMetadata, reportRegistry, profiles>>

\* mutant of DatasetRemoteGetStorage: the fetched record is not written
DatasetRemoteGetStorage_NoWrite(storage, d) == storage

\* Dataset.__remote_get, line 213: the storage after the fetched record
\* was written
DatasetRemoteGetStorage(storage, d) == DatasetWrite(storage, d)

\* mutant of DatasetGetIsLocal: every lookup is local
DatasetGetIsLocal_Always(uid, local_only) == TRUE

\* Dataset.get, line 189: the lookup that never asks the registry
DatasetGetIsLocal(uid, local_only) == ~IsDigit(uid) \/ local_only

\* Dataset.get (with Dataset.__remote_get); wok: the write to disk succeeds
DatasetGet(uid, local_only, up, wok) ==
    IF DatasetGetIsLocal(uid, local_only)
    THEN LET r == DatasetLocalGet(dataStorage, uid)
         IN  /\ up /\ wok
             /\ last' = Op("get", "Dataset", uid, local_only, NoFilters, up,
                           r.status, r.ents, <<>>)
             /\ UNCHANGED <<dsetRegistry, dataStorage, bmkRegistry, bmkStorage, cubeLinks, assocs,
                   reportMetadata, reportRegistry, profiles>>
    ELSE IF up /\ ToInt(uid) \in DOMAIN dsetRegistry
    THEN LET d == dsetRegistry[ToInt(uid)]
         IN  IF wok
             THEN /\ dataStorage' = DatasetRemoteGetStorage(dataStorage, d)
                  /\ last' = Op("get", "Dataset", uid, local_only, NoFilters,
                                up, "ok", <<Ent(d, "remote")>>,
                                <<"get_dataset">>)
                  /\ UNCHANGED <<dsetRegistry, bmkRegistry, bmkStorage, cubeLinks, assocs,
                   reportMetadata, reportRegistry, profiles>>
             ELSE /\ last' = Op("get", "Dataset", uid, local_only, NoFilters,
                                up, "OSError", <<>>, <<"get_dataset">>)
                  /\ UNCHANGED <<dsetRegistry, dataStorage, bmkRegistry,
                                 bmkStorage, cubeLinks, assocs,
                   reportMetadata, reportRegistry, profiles>>
    ELSE LET r == DatasetLocalGet(dataStorage, uid)
         IN  /\ wok
             /\ last' = Op("get", "Dataset", uid, local_only, NoFilters, up,
                           r.status, r.ents, <<"get_dataset">>)
             /\ UNCHANGED <<dsetRegistry, dataStorage, bmkRegistry, bmkStorage, cubeLinks, assocs,
                   reportMetadata, reportRegistry, profiles>>

\* Dataset.upload, line 247: test datasets are refused
DatasetUploadRefused(d) == d.for_test

\* Dataset.upload of the dataset stored under key; the registry assigns the id
DatasetUpload(key, up) ==
    /\ key \in DOMAIN dataStorage
    /\ LET d == dataStorage[key]
           newId == Max({0} \cup DOMAIN dsetRegistry) + 1
       IN  IF DatasetUploadRefused(d)
           THEN /\ up
                /\ last' = Op("upload", "Dataset", key, FALSE, NoFilters, up,
                              "InvalidArgumentError", <<Ent(d, "local")>>, <<>>)
                /\ UNCHANGED dsetRegistry
           ELSE IF up /\ newId <= MaxId
           THEN /\ dsetRegistry' = Put(dsetRegistry, newId,
                                       [d EXCEPT !.id = newId])
                /\ last' = Op("upload", "Dataset", key, FALSE, NoFilters, up,
                              "ok", <<Ent(d, "local"),
                                      Ent([d EXCEPT !.id = newId], "remote")>>,
                              <<"upload_dataset">>)
           ELSE /\ ~up
                /\ last' = Op("upload", "Dataset", key, FALSE, NoFilters, up,
                              "CommunicationRequestError", <<Ent(d, "local")>>,
                              <<"upload_dataset">>)
                /\ UNCHANGED dsetRegistry
    /\ UNCHANGED <<dataStorage, bmkRegistry, bmkStorage, cubeLinks, assocs,
                   reportMetadata, reportRegistry, profiles>>

\* =================================================================
\* Benchmark (entities/benchmark.py)
\* =================================================================

\* a benchmark uid as the name of its directory: str(id) of a registered
\* benchmark, or the temporary prefix followed by the three cubes
RegUid(i) == [prefix |-> "", n |-> i, cubes |-> <<>>]
TmpUid(dp, m, e) == [prefix |-> tmp_prefix, n |-> None, cubes |-> <<dp, m, e>>]
IsTmp(uid) == uid.prefix = tmp_prefix

\* a benchmark as the registry holds it at the start (comms.get_benchmark)
BmkMeta(i) ==
    [id |-> RegUid(i), owner |-> IF i % 2 = 1 THEN Me ELSE Other,
     data_preparation_mlcube |-> Cube(1 + (i % 2)),
     reference_model_mlcube |-> Cube(2),
     data_evaluator_mlcube |-> Cube(1),
     demo_dataset_tarball_hash |-> IF i = 1 THEN "" ELSE "abc123",
     models |-> <<>>]

\* comms.get_benchmark_models: the models associated to the benchmark
CommsBenchmarkModels(uid) == IF uid.n = 1 THEN <<Cube(1)>> ELSE <<>>

\* a set as a sequence, in a fixed order
RECURSIVE SetToSeq(_)
SetToSeq(S) ==
    IF S = {} THEN <<>>
    ELSE LET x == CHOOSE y \in S : TRUE IN <<x>> \o SetToSeq(S \ {x})

\* the directories of the benchmarks storage in listing order
BenchmarkDirs(storage) == SetToSeq(DOMAIN storage)

\* Benchmark.write: the record goes to the directory str(model.id)
BenchmarkWrite(storage, b) == Put(storage, b.id, b)

\* Benchmark.get, lines 69-85: the record the get resolves to
\* (mok: the call for the associated models succeeds)
BenchmarkResolve(reg, storage, uid, up, mok) ==
    IF up /\ uid.n \in DOMAIN reg /\ ~IsTmp(uid) /\ mok
    THEN [status |-> "ok",
          ents |-> <<Ent([reg[uid.n] EXCEPT !.models =
                             <<reg[uid.n].reference_model_mlcube>>
                             \o CommsBenchmarkModels(uid)], "remote")>>]
    ELSE IF uid \in DOMAIN storage
    THEN [status |-> "ok", ents |-> <<Ent(storage[uid], "local")>>]
    ELSE [status |-> "InvalidArgumentError", ents |-> <<>>]

\* the registry calls of one Benchmark.get
BenchmarkGetCalls(reg, uid, up) ==
    IF up /\ uid.n \in DOMAIN reg /\ ~IsTmp(uid)
    THEN <<"get_benchmark", "get_benchmark_models">>
    ELSE <<"get_benchmark">>

\* Benchmark.get, line 88: the storage after the resolved record was written
BenchmarkGetStorage(storage, b) == BenchmarkWrite(storage, b)

\* Benchmark.get
BenchmarkGet(uid, up, mok, wok) ==
    LET r == BenchmarkResolve(bmkRegistry, bmkStorage, uid, up, mok)
        calls == BenchmarkGetCalls(bmkRegistry, uid, up)
    IN  /\ Len(calls) = 1 => mok
        /\ r.status # "ok" => wok
        /\ IF r.status = "ok" /\ wok
           THEN /\ bmkStorage' = BenchmarkGetStorage(bmkStorage, r.ents[1].rec)
                /\ last' = Op("get", "Benchmark", uid, FALSE, NoFilters, up,
                              "ok", r.ents, calls)
           ELSE /\ last' = Op("get", "Benchmark", uid, FALSE, NoFilters, up,
                              IF r.status = "ok" THEN "OSError" ELSE r.status,
                              <<>>, calls)
                /\ UNCHANGED bmkStorage
        /\ UNCHANGED <<dsetRegistry, dataStorage, bmkRegistry, cubeLinks, assocs,
                   reportMetadata, reportRegistry, profiles>>

\* Benchmark.all, line 50: one get per directory of the benchmarks storage
BenchmarkAllResult(reg, storage, up, mok) ==
    LET uids == BenchmarkDirs(storage)
    IN  [j \in 1..Len(uids) |->
            BenchmarkResolve(reg, storage, uids[j], up, mok).ents[1]]

\* the storage after every get of Benchmark.all wrote its record
BenchmarkAllStorage(reg, storage, up, mok) ==
    [uid \in DOMAIN storage |->
        BenchmarkResolve(reg, storage, uid, up, mok).ents[1].rec]

\* the registry calls of Benchmark.all
RECURSIVE Flatten(_)
Flatten(ss) == IF ss = <<>> THEN <<>> ELSE Head(ss) \o Flatten(Tail(ss))

BenchmarkAllCalls(reg, storage, up) ==
    LET uids == BenchmarkDirs(storage)
    IN  Flatten([j \in 1..Len(uids) |-> BenchmarkGetCalls(reg, uids[j], up)])

\* Benchmark.all
BenchmarkAll(up, mok) ==
    /\ ~up => mok
    /\ bmkStorage' = BenchmarkAllStorage(bmkRegistry, bmkStorage, up, mok)
    /\ last' = Op("all", "Benchmark", RegUid(0), FALSE, NoFilters, up, "ok",
                  BenchmarkAllResult(bmkRegistry, bmkStorage, up, mok),
                  BenchmarkAllCalls(bmkRegistry, bmkStorage, up))
    /\ UNCHANGED <<dsetRegistry, dataStorage, bmkRegistry, cubeLinks, assocs,
                   reportMetadata, reportRegistry, profiles>>

\* Benchmark.all called with keyword arguments, as the web UI and the entity
\* tests call it: all(cls) takes none, the call raises TypeError
BenchmarkAllKeywords(kwargs) ==
    /\ kwargs # {}
    /\ last' = Op("all", "Benchmark", RegUid(0), "local_only" \in kwargs,
                  IF "mine_only" \in kwargs
                  THEN [owner |-> Me, mlcube |-> NoCube] ELSE NoFilters,
                  TRUE, "TypeError", <<>>, <<>>)
    /\ UNCHANGED <<dsetRegistry, dataStorage, bmkRegistry, bmkStorage,
                   cubeLinks, assocs,
                   reportMetadata, reportRegistry, profiles>>

\* Benchmark.upload, lines 192-195: nothing is refused
BenchmarkUploadRefused(b) == FALSE

\* Benchmark.upload of the benchmark stored under uid
BenchmarkUpload(uid, up) ==
    /\ uid \in DOMAIN bmkStorage
    /\ LET b == bmkStorage[uid]
           newId == Max({0} \cup DOMAIN bmkRegistry) + 1
       IN  IF BenchmarkUploadRefused(b)
           THEN /\ up
                /\ last' = Op("upload", "Benchmark", uid, FALSE, NoFilters, up,
                              "InvalidArgumentError", <<Ent(b, "local")>>, <<>>)
                /\ UNCHANGED bmkRegistry
           ELSE IF up /\ newId <= MaxId
           THEN /\ bmkRegistry' = Put(bmkRegistry, newId,
                                      [b EXCEPT !.id = RegUid(newId)])
                /\ last' = Op("upload", "Benchmark", uid, FALSE, NoFilters, up,
                              "ok", <<Ent(b, "local"),
                                      Ent([b EXCEPT !.id = RegUid(newId)],
                                          "remote")>>,
                              <<"upload_benchmark">>)
           ELSE /\ ~up
                /\ last' = Op("upload", "Benchmark", uid, FALSE, NoFilters, up,
                              "CommunicationRequestError", <<Ent(b, "local")>>,
                              <<"upload_benchmark">>)
                /\ UNCHANGED bmkRegistry
    /\ UNCHANGED <<dsetRegistry, dataStorage, bmkStorage, cubeLinks, assocs,
                   reportMetadata, reportRegistry, profiles>>

\* Benchmark.tmp: the temporary benchmark of three cubes
TmpBenchmark(dp, m, e) ==
    [id |-> TmpUid(dp, m, e), owner |-> Me,
     data_preparation_mlcube |-> dp, reference_model_mlcube |-> m,
     data_evaluator_mlcube |-> e, demo_dataset_tarball_hash |-> "",
     models |-> <<m>>]

\* Benchmark.tmp, line 143: the benchmarks storage it leaves behind
BenchmarkTmpStorage(storage, dp, m, e) ==
    BenchmarkWrite(storage, TmpBenchmark(dp, m, e))

\* =================================================================
\* Compatibility test (commands/compatibility_test.py)
\* =================================================================

\* pretty_error prints the message and ends the process
PrettyErrorReturns == FALSE

\* the arguments of CompatibilityTestExecution.run
TestArgs(benchmark_uid, data_uid, data_prep, model, evaluator) ==
    [benchmark_uid |-> benchmark_uid, data_uid |-> data_uid,
     data_prep |-> data_prep, model |-> model, evaluator |-> evaluator]

\* mutant of TestInvalid: the dataset identifier is not looked at
TestInvalid_CubesOnly(a) ==
    /\ a.benchmark_uid = None
    /\ \/ a.data_prep = NoCube
       \/ a.model = NoCube
       \/ a.evaluator = NoCube

\* validate, lines 80-82: the combination of arguments that is refused
TestInvalid(a) ==
    /\ a.benchmark_uid = None
    /\ \/ a.data_uid = NoneStr
       \/ a.data_prep = NoCube
       \/ a.model = NoCube
       \/ a.evaluator = NoCube

\* os.path.exists(val): the value is the path of a local cube
IsLocalPath(val) == val.path # ""

\* mutant of SetCubeUid: the fallback replaces a supplied value
SetCubeUid_AlwaysFallback(val, fallback) == fallback

\* set_cube_uid: the value of the slot afterwards
SetCubeUid(val, fallback) == IF val = NoCube THEN fallback ELSE val

\* set_cube_uid, lines 134-138, for the three slots in turn: a local path is
\* linked under test_cube_prefix + str(int(time())); os.symlink fails when
\* the link exists.  vals: the supplied values, ts: the clock at each call
RECURSIVE LinkCubes(_, _, _)
LinkCubes(links, vals, ts) ==
    IF vals = <<>> THEN [ok |-> TRUE, links |-> links]
    ELSE IF IsLocalPath(Head(vals))
    THEN IF Head(ts) \in DOMAIN links
         THEN [ok |-> FALSE, links |-> links]
         ELSE LinkCubes(Put(links, Head(ts), Head(vals).path),
                        Tail(vals), Tail(ts))
    ELSE LinkCubes(links, Tail(vals), Tail(ts))

NoBenchmark == TmpBenchmark(NoCube, NoCube, NoCube)

\* the state of a run after a step
TestState(status, steps, bs, ds, links, b, dp, m, e, data_uid) ==
    [status |-> status, steps |-> steps, bs |-> bs, ds |-> ds,
     links |-> links, benchmark |-> b, data_prep |-> dp, model |-> m,
     evaluator |-> e, data_uid |-> data_uid]

\* prepare_test
TestPrepare(reg, bs, ds, links, a, ts, up) ==
    IF Truthy(a.benchmark_uid)
    THEN LET r == BenchmarkResolve(reg, bs, RegUid(a.benchmark_uid), up, TRUE)
         IN  IF r.status # "ok"
             THEN TestState(r.status, <<"validate", "get_benchmark">>, bs, ds,
                            links, NoBenchmark, a.data_prep, a.model,
                            a.evaluator, a.data_uid)
             ELSE LET b == r.ents[1].rec
                      l == LinkCubes(links,
                               <<a.data_prep, a.model, a.evaluator>>, ts)
                  IN  TestState(IF l.ok THEN "ok" ELSE "FileExistsError",
                          <<"validate", "get_benchmark", "set_cube_uid">>,
                          BenchmarkGetStorage(bs, b), ds, l.links, b,
                          SetCubeUid(a.data_prep, b.data_preparation_mlcube),
                          SetCubeUid(a.model, b.reference_model_mlcube),
                          SetCubeUid(a.evaluator, b.data_evaluator_mlcube),
                          a.data_uid)
    ELSE LET l == LinkCubes(links, <<a.data_prep, a.model, a.evaluator>>, ts)
             dp == SetCubeUid(a.data_prep, NoCube)
             m == SetCubeUid(a.model, NoCube)
             e == SetCubeUid(a.evaluator, NoCube)
         IN  IF ~l.ok
             THEN TestState("FileExistsError", <<"validate", "set_cube_uid">>,
                            bs, ds, l.links, NoBenchmark, dp, m, e, a.data_uid)
             ELSE TestState("ok", <<"validate", "set_cube_uid", "tmp">>,
                            BenchmarkTmpStorage(bs, dp, m, e), ds, l.links,
                            TmpBenchmark(dp, m, e), dp, m, e, a.data_uid)

\* mutant of DemoHashMismatch: the archive is never refused
DemoHashMismatch_Never(dset_hash, file_hash) == FALSE

\* download_demo_data, line 178: the archive is refused
DemoHashMismatch(dset_hash, file_hash) ==
    dset_hash # "" /\ file_hash # dset_hash

\* the dataset DataPreparation.run(run_test=True) registers locally
TestDset(fp, dp) ==
    [LocalDset(tmp_prefix \o fp, TRUE) EXCEPT !.data_preparation_mlcube = dp]

\* set_data_uid (with download_demo_data)
TestSetDataUid(s, fp, up, file_hash) ==
    IF s.data_uid # NoneStr THEN s
    ELSE IF ~up
    THEN [s EXCEPT !.status = "CommunicationRetrievalError",
                   !.steps = @ \o <<"download">>]
    ELSE IF /\ DemoHashMismatch(s.benchmark.demo_dataset_tarball_hash,
                                file_hash)
            /\ ~PrettyErrorReturns
    THEN [s EXCEPT !.status = "IntegrityError", !.steps = @ \o <<"download">>]
    ELSE [s EXCEPT !.steps = @ \o <<"download", "untar", "prepare">>,
                   !.ds = DatasetWrite(s.ds, TestDset(fp, s.data_prep)),
                   !.data_uid = tmp_prefix \o fp]

\* execute_benchmark; pok: the evaluation pipeline succeeds
TestExecute(s, pok) ==
    [s EXCEPT !.status = IF pok THEN "ok" ELSE "ExecutionError",
              !.steps = @ \o <<"pipeline">>]

\* mutant of TestRun: a failed step does not stop the run
TestRun_KeepGoing(reg, bs, ds, links, a, ts, fp, up, file_hash, pok) ==
    TestExecute(TestSetDataUid(TestPrepare(reg, bs, ds, links, a, ts, up),
                               fp, up, file_hash), pok)

\* CompatibilityTestExecution.run
TestRun(reg, bs, ds, links, a, ts, fp, up, file_hash, pok) ==
    IF TestInvalid(a) /\ ~PrettyErrorReturns
    THEN TestState("InvalidArgument", <<"validate">>, bs, ds, links,
                   NoBenchmark, a.data_prep, a.model, a.evaluator, a.data_uid)
    ELSE LET s1 == TestPrepare(reg, bs, ds, links, a, ts, up)
             s2 == TestSetDataUid(s1, fp, up, file_hash)
         IN  IF s1.status # "ok" THEN s1
             ELSE IF s2.status # "ok" THEN s2
             ELSE TestExecute(s2, pok)

\* inputs a run does not read are held at one value
CompatibilityTest(a, ts, fp, up, file_hash, pok) ==
    /\ (\A v \in {a.data_prep, a.model, a.evaluator} : ~IsLocalPath(v))
           => ts = <<0, 0, 0>>
    /\ a.data_uid # NoneStr => file_hash = "abc123"
    /\ \E s \in {TestRun(bmkRegistry, bmkStorage, dataStorage, cubeLinks, a,
                          ts, fp, up, file_hash, pok)} :
        /\ s.steps[Len(s.steps)] # "pipeline" => pok
        /\ (\A j \in 1..Len(s.steps) : s.steps[j] # "download")
               => file_hash = "abc123"
        /\ Cardinality({k \in DOMAIN s.bs : IsTmp(k)}) <= MaxTmp
        /\ bmkStorage' = s.bs
        /\ dataStorage' = s.ds
        /\ cubeLinks' = s.links
        /\ last' = [op |-> "test", kind |-> "Test", args |-> a,
                    status |-> s.status, steps |-> s.steps,
                    benchmark |-> s.benchmark, data_uid |-> s.data_uid,
                    data_prep |-> s.data_prep, model |-> s.model,
                    evaluator |-> s.evaluator, file_hash |-> file_hash,
                    ents |-> <<>>, calls |-> <<>>]
    /\ UNCHANGED <<dsetRegistry, bmkRegistry, assocs,
                   reportMetadata, reportRegistry, profiles>>

\* =================================================================
\* Result (entities/result.py)
\* =================================================================

\* Result.upload, line 66: nothing is refused
ResultUploadRefused(r) == FALSE

\* Result.upload of the result the finished test returned
ResultUpload(up) ==
    /\ last.op = "test" /\ last.status = "ok"
    /\ LET r == [benchmark_uid |-> last.benchmark.id,
                 dataset_uid |-> last.data_uid, model_uid |-> last.model,
                 status |-> "PENDING"]
       IN  IF ResultUploadRefused(r)
           THEN /\ up
                /\ last' = Op("upload", "Result", "", FALSE, NoFilters, up,
                              "InvalidArgumentError", <<Ent(r, "local")>>, <<>>)
           ELSE last' = Op("upload", "Result", "", FALSE, NoFilters, up,
                           IF up THEN "ok" ELSE "CommunicationRequestError",
                           <<Ent(r, "local")>>, <<"upload_results">>)
    /\ UNCHANGED <<dsetRegistry, dataStorage, bmkRegistry, bmkStorage,
                   cubeLinks, assocs,
                   reportMetadata, reportRegistry, profiles>>

\* =================================================================
\* Associations (commands/associate.py, entities/association.py)
\* =================================================================

\* an association as the registry creates it
NewAssociation(benchmark_uid, data_uid, who) ==
    [benchmark |-> benchmark_uid, dataset |-> data_uid,
     approval_status |-> "PENDING", initiated_by |-> who]

\* the record of one association operation: who called, on which
\* association, what was compared, the outcome and the calls and prompts
AssocOp(op, id, who, up, status, ents, calls) ==
    [op |-> op, kind |-> "Association", key |-> id, who |-> who, up |-> up,
     status |-> status, ents |-> ents, calls |-> calls]

\* mutant of AssociationIncompatible: the cubes are never found to differ
AssociationIncompatible_Never(dset, benchmark) == FALSE

\* associate.py, line 22: the dataset was not prepared for the benchmark
AssociationIncompatible(dset, benchmark) ==
    dset.data_preparation_mlcube # benchmark.data_preparation_mlcube

\* the record of one DatasetBenchmarkAssociation.run
AssociateOp(approval, id, up, status, ents, calls) ==
    AssocOp("associate", id, Me, up, status, ents, calls)
        @@ [approval |-> approval]

\* mutant of AssociationConsented: the answer to the prompt is not looked at
AssociationConsented_Always(approval) == TRUE

\* line 26: if approval
AssociationConsented(approval) == approval

\* DatasetBenchmarkAssociation.run; approval: the answer to the prompt
Associate(data_uid, benchmark_uid, approval, up) ==
    \E d \in {DatasetLocalGet(dataStorage, Str(data_uid))},
       b \in {BenchmarkResolve(bmkRegistry, bmkStorage, RegUid(benchmark_uid),
                              up, TRUE)} :
        LET newId == Max({0} \cup DOMAIN assocs) + 1
            stop == \/ d.status # "ok"
                    \/ b.status # "ok"
                    \/ /\ AssociationIncompatible(d.ents[1].rec, b.ents[1].rec)
                       /\ ~PrettyErrorReturns
            ents == IF d.status = "ok" /\ b.status = "ok"
                    THEN d.ents \o b.ents ELSE <<>>
            fetch == IF d.status = "ok"
                     THEN BenchmarkGetCalls(bmkRegistry, RegUid(benchmark_uid), up)
                     ELSE <<>>
        IN  /\ stop => approval
            /\ bmkStorage' = IF d.status = "ok" /\ b.status = "ok"
                             THEN BenchmarkGetStorage(bmkStorage, b.ents[1].rec)
                             ELSE bmkStorage
            /\ IF stop
               THEN /\ last' = AssociateOp(approval, 0, up,
                                  IF d.status # "ok" THEN d.status
                                  ELSE IF b.status # "ok" THEN b.status
                                  ELSE "IncompatibleAssociation",
                                  ents, fetch)
                    /\ UNCHANGED assocs
               ELSE IF ~AssociationConsented(approval)
               THEN /\ last' = AssociateOp(approval, 0, up, "ok", ents,
                                  fetch \o <<"request_association_approval">>)
                    /\ UNCHANGED assocs
               ELSE IF up /\ newId <= MaxAssoc
               THEN /\ assocs' = Put(assocs, newId,
                                     NewAssociation(benchmark_uid, data_uid, Me))
                    /\ last' = AssociateOp(approval, newId, up, "ok", ents,
                                  fetch \o <<"request_association_approval",
                                             "associate_dset_benchmark">>)
               ELSE /\ ~up
                    /\ last' = AssociateOp(approval, 0, up,
                                  "CommunicationRequestError", ents,
                                  fetch \o <<"request_association_approval",
                                             "associate_dset_benchmark">>)
                    /\ UNCHANGED assocs
            /\ UNCHANGED <<dsetRegistry, dataStorage, bmkRegistry, cubeLinks,
                           reportMetadata, reportRegistry, profiles>>

\* mutant of AssociationIsPending: any association may change status
AssociationIsPending_Always(a) == TRUE

\* approve / reject: only a PENDING association changes status
AssociationIsPending(a) == a.approval_status = "PENDING"

\* mutant of AssociationAuthorized: anybody may approve or reject
AssociationAuthorized_Anybody(a, who) == TRUE

\* approve / reject: permitted only to the owner of the benchmark
AssociationAuthorized(a, who) == who = bmkRegistry[a.benchmark].owner

\* updateAssociationStatus(id, APPROVED | REJECTED) called by who.  The
\* status is looked at before the caller: an association that is not
\* PENDING fails every call with InvalidTransition.
SetApproval(op, new_status, id, who) ==
    /\ id \in DOMAIN assocs
    /\ IF ~AssociationIsPending(assocs[id])
       THEN /\ last' = AssocOp(op, id, who, TRUE, "InvalidTransition", <<>>,
                               <<>>)
            /\ UNCHANGED assocs
       ELSE IF ~AssociationAuthorized(assocs[id], who)
       THEN /\ last' = AssocOp(op, id, who, TRUE, "Unauthorized", <<>>, <<>>)
            /\ UNCHANGED assocs
       ELSE /\ assocs' = [assocs EXCEPT ![id].approval_status = new_status]
            /\ last' = AssocOp(op, id, who, TRUE, "ok", <<>>,
                               <<"set_approval">>)
    /\ UNCHANGED <<dsetRegistry, dataStorage, bmkRegistry, bmkStorage,
                   cubeLinks, reportMetadata, reportRegistry, profiles>>

Approve(id, who) == SetApproval("approve", "APPROVED", id, who)
Reject(id, who) == SetApproval("reject", "REJECTED", id, who)

\* Association.__remote_all as the class binds it: the second definition
\* (lines 68-71) replaces the first; it takes no keyword and returns []
AssociationRemoteAll(kwargs) ==
    IF kwargs # {} THEN [status |-> "TypeError", ents |-> <<>>]
    ELSE [status |-> "ok", ents |-> <<>>]

\* Association.__local_all: the class defines no such method
AssociationLocalAll == [status |-> "AttributeError", ents |-> <<>>]

\* Association.all; calls: the registry calls made
AssociationAll(local_only, mine_only) ==
    /\ LET r == IF local_only THEN [status |-> "ok", ents |-> <<>>]
                ELSE AssociationRemoteAll({"mine_only"})
           l == AssociationLocalAll
           status == IF r.status # "ok" THEN r.status ELSE l.status
       IN  last' = [op |-> "all", kind |-> "Association", key |-> 0,
                    who |-> Me, up |-> TRUE, status |-> status,
                    ents |-> IF status = "ok" THEN r.ents \o l.ents ELSE <<>>,
                    calls |-> <<>>, local_only |-> local_only,
                    mine_only |-> mine_only]
    /\ UNCHANGED <<dsetRegistry, dataStorage, bmkRegistry, bmkStorage,
                   cubeLinks, assocs,
                   reportMetadata, reportRegistry, profiles>>

\* =================================================================
\* Report registration (commands/report/submit.py)
\* =================================================================

\* lines 38-40: the staging directory of a report, name_prep_cube_uid
ReportKey(name, prep_cube_uid) == <<name, prep_cube_uid>>

\* the record of one ReportRegistration.run
ReportOp(key, approved, answer, up, status, returned, prompted, calls, id) ==
    [op |-> "report", kind |-> "Report", key |-> key, approved |-> approved,
     answer |-> answer, up |-> up, status |-> status, returned |-> returned,
     prompted |-> prompted, calls |-> calls, report_uid |-> id,
     ents |-> <<>>]

\* mutant of ReportKnown: the stored metadata is never found
ReportKnown_Never(files, key) == FALSE

\* line 61: the metadata of an earlier submission is in the staging directory
ReportKnown(files, key) == key \in DOMAIN files

\* mutant of ReportApproved: the answer to the prompt is not looked at
ReportApproved_Always(approved, answer) == TRUE

\* line 90: approved or approval_prompt(msg)
ReportApproved(approved, answer) == approved \/ answer

\* ReportRegistration.run; answer: the user's answer should the prompt be
\* shown, cube_ok: Cube.get(prep_cube_uid) succeeds
ReportRun(name, prep_cube_uid, approved, answer, up, cube_ok) ==
    LET key == ReportKey(name, prep_cube_uid)
        known == ReportKnown(reportMetadata, key)
        report_uid == IF known THEN reportMetadata[key].id ELSE None
        prompted == ~known /\ ~approved
        newId == Max({0} \cup DOMAIN reportRegistry) + 1
    IN  /\ ~prompted => ~answer
        /\ ~cube_ok => ~approved /\ ~answer /\ up
        /\ IF ~cube_ok
           THEN /\ last' = ReportOp(key, approved, answer, up,
                                    "InvalidArgumentError", "raised", FALSE,
                                    <<>>, None)
                /\ UNCHANGED <<reportMetadata, reportRegistry>>
           ELSE IF known
           THEN /\ last' = ReportOp(key, approved, answer, up,
                                    IF up THEN "ok"
                                    ELSE "CommunicationRequestError",
                                    IF up THEN "True" ELSE "raised", FALSE,
                                    <<"update_report">>, report_uid)
                /\ reportMetadata' =
                       IF up THEN Put(reportMetadata, key, [id |-> report_uid])
                       ELSE reportMetadata
                /\ UNCHANGED reportRegistry
           ELSE IF ~ReportApproved(approved, answer)
           THEN /\ up
                /\ last' = ReportOp(key, approved, answer, up, "ok", "False",
                                    prompted, <<>>, None)
                /\ UNCHANGED <<reportMetadata, reportRegistry>>
           ELSE IF up /\ newId <= MaxReport
           THEN /\ last' = ReportOp(key, approved, answer, up, "ok", "True",
                                    prompted, <<"upload_report">>, None)
                /\ reportRegistry' = Put(reportRegistry, newId, key)
                /\ reportMetadata' = Put(reportMetadata, key, [id |-> newId])
           ELSE /\ ~up
                /\ last' = ReportOp(key, approved, answer, up,
                                    "CommunicationRequestError", "raised",
                                    prompted, <<"upload_report">>, None)
                /\ UNCHANGED <<reportMetadata, reportRegistry>>
        /\ UNCHANGED <<dsetRegistry, dataStorage, bmkRegistry, bmkStorage,
                       cubeLinks, assocs, profiles>>

\* =================================================================
\* Profiles (commands/profile.py)
\* =================================================================

\* config.customizable_params
customizable_params == {"server", "loglevel"}

\* the keys a command line may pass
PROFILEKEYS == customizable_params \cup {"bad"}

\* the parsed arguments of a command line: key -> value
PROFILEARGS == UNION {[S -> {"x", "y"}] : S \in SUBSET PROFILEKEYS}

\* the record of one profile command
ProfileOp(op, name, args, status) ==
    [op |-> op, kind |-> "Profile", name |-> name, args |-> args,
     status |-> status, ents |-> <<>>, calls |-> <<>>]

\* mutant of InvalidArgs: every key is taken as customizable
InvalidArgs_None(keys) == {}

\* validate_custom_args, line 32
InvalidArgs(keys) == keys \ customizable_params

\* validate_custom_args ends the command
ArgsRefused(args) == InvalidArgs(DOMAIN args) # {} /\ ~PrettyErrorReturns

\* create
ProfileCreate(name, args) ==
    /\ IF ArgsRefused(args)
       THEN /\ last' = ProfileOp("create", name, args, "InvalidArguments")
            /\ UNCHANGED profiles
       ELSE IF name \in DOMAIN profiles /\ ~PrettyErrorReturns
       THEN /\ last' = ProfileOp("create", name, args, "ProfileExists")
            /\ UNCHANGED profiles
       ELSE /\ last' = ProfileOp("create", name, args, "ok")
            /\ profiles' = Put(profiles, name, args)
    /\ UNCHANGED <<dsetRegistry, dataStorage, bmkRegistry, bmkStorage,
                   cubeLinks, assocs, reportMetadata, reportRegistry>>

\* set; profile: config.profile
ProfileSet(profile, args) ==
    /\ IF ArgsRefused(args)
       THEN /\ last' = ProfileOp("set", profile, args, "InvalidArguments")
            /\ UNCHANGED profiles
       ELSE IF profile \notin DOMAIN profiles
       THEN /\ last' = ProfileOp("set", profile, args, "KeyError")
            /\ UNCHANGED profiles
       ELSE /\ last' = ProfileOp("set", profile, args, "ok")
            /\ profiles' = Put(profiles, profile, args @@ profiles[profile])
    /\ UNCHANGED <<dsetRegistry, dataStorage, bmkRegistry, bmkStorage,
                   cubeLinks, assocs, reportMetadata, reportRegistry>>

\* unset; keys: the keys of the command line.  Deleting a key the profile
\* does not hold raises KeyError before the file is written.
ProfileUnset(profile, keys) ==
    LET del == keys \cap customizable_params
    IN  /\ IF del = {}
           THEN /\ last' = ProfileOp("unset", profile, keys, "ok")
                /\ UNCHANGED profiles
           ELSE IF profile \notin DOMAIN profiles
                   \/ ~(del \subseteq DOMAIN profiles[profile])
           THEN /\ last' = ProfileOp("unset", profile, keys, "KeyError")
                /\ UNCHANGED profiles
           ELSE /\ last' = ProfileOp("unset", profile, keys, "ok")
                /\ profiles' =
                       Put(profiles, profile,
                           [k \in DOMAIN profiles[profile] \ del |->
                               profiles[profile][k]])
        /\ UNCHANGED <<dsetRegistry, dataStorage, bmkRegistry, bmkStorage,
                       cubeLinks, assocs, reportMetadata, reportRegistry>>

\* =================================================================
\* specifications
\* =================================================================

FILTERS == {NoFilters, [owner |-> Me, mlcube |-> NoCube],
            [owner |-> "", mlcube |-> Cube(1)]}
GETKEYS == {Str(i) : i \in 0..MaxId} \cup FPS
BMKKEYS == {RegUid(i) : i \in 0..MaxId}

NoOp == Op("init", "", "", FALSE, NoFilters, FALSE, "ok", <<>>, <<>>)

\* The registry and the local cache of one entity type hold any set of
\* records, the other type has none.  A cached record sits in the directory
\* its identifier names, a locally prepared dataset in the directory its
\* generated_uid names (Dataset.__init__, Benchmark.write).
InitDatasets ==
    /\ \E R \in SUBSET IDS : dsetRegistry = [i \in R |-> DsetMeta(i)]
    /\ \E L \in SUBSET IDS, U \in SUBSET FPS :
           dataStorage = [k \in {Str(i) : i \in L} \cup U |->
                             IF k \in U THEN LocalDset(k, FALSE)
                             ELSE DsetMeta(ToInt(k))]
    /\ bmkRegistry = EmptyFn
    /\ bmkStorage = EmptyFn

InitBenchmarks ==
    /\ dsetRegistry = EmptyFn
    /\ dataStorage = EmptyFn
    /\ \E R \in SUBSET IDS : bmkRegistry = [i \in R |-> BmkMeta(i)]
    /\ \E L \in SUBSET IDS :
           bmkStorage = [k \in {RegUid(i) : i \in L} |-> BmkMeta(k.n)]

Init ==
    /\ InitDatasets \/ InitBenchmarks
    /\ cubeLinks = EmptyFn
    /\ assocs = EmptyFn
    /\ reportMetadata = EmptyFn
    /\ reportRegistry = EmptyFn
    /\ profiles = DefaultProfiles
    /\ last = NoOp

Next ==
    \/ \E lo \in BOOLEAN, f \in FILTERS, up \in BOOLEAN : DatasetAll(lo, f, up)
    \/ \E k \in GETKEYS, lo \in BOOLEAN, up \in BOOLEAN, wok \in BOOLEAN :
           DatasetGet(k, lo, up, wok)
    \/ \E up \in BOOLEAN, mok \in BOOLEAN : BenchmarkAll(up, mok)
    \/ \E k \in BMKKEYS, up \in BOOLEAN, mok \in BOOLEAN, wok \in BOOLEAN :
           BenchmarkGet(k, up, mok, wok)
    \/ \E kwargs \in SUBSET {"local_only", "mine_only"} :
           BenchmarkAllKeywords(kwargs)

Spec == Init /\ [][Next]_vars

\* The compatibility test against a registry of two benchmarks and one
\* dataset, nothing cached.
CLOCKS == {ts \in [1..3 -> 0..MaxClock] : ts[1] <= ts[2] /\ ts[2] <= ts[3]}
TESTARGS ==
    {TestArgs(b, d, dp, m, e) :
        b \in {None, 1}, d \in {NoneStr, "1"},
        dp \in {NoCube, Cube(1), PathCube("/p")},
        m \in {NoCube, Cube(2)}, e \in {NoCube, Cube(1)}}

InitTest ==
    /\ dsetRegistry = [i \in {1} |-> DsetMeta(i)]
    /\ dataStorage = EmptyFn
    /\ bmkRegistry = [i \in {1, 2} |-> BmkMeta(i)]
    /\ bmkStorage = EmptyFn
    /\ cubeLinks = EmptyFn
    /\ assocs = EmptyFn
    /\ reportMetadata = EmptyFn
    /\ reportRegistry = EmptyFn
    /\ profiles = DefaultProfiles
    /\ last = NoOp

NextTest ==
    \/ \E a \in TESTARGS, ts \in CLOCKS, up \in BOOLEAN,
          h \in {"abc123", "xyz999"}, pok \in BOOLEAN :
           CompatibilityTest(a, ts, "fa", up, h, pok)
    \/ \E up \in BOOLEAN, mok \in BOOLEAN : BenchmarkAll(up, mok)
    \/ \E lo \in BOOLEAN, up \in BOOLEAN : DatasetAll(lo, NoFilters, up)
    \/ \E k \in DOMAIN bmkStorage, up \in BOOLEAN : BenchmarkUpload(k, up)
    \/ \E k \in DOMAIN dataStorage, up \in BOOLEAN : DatasetUpload(k, up)
    \/ \E up \in BOOLEAN : ResultUpload(up)

SpecTest == InitTest /\ [][NextTest]_vars

\* One run of the compatibility test per process, over the storage earlier
\* processes may have left: benchmark 1 cached or not, a cube linked under
\* the clock value 0 or not.
RUNARGS ==
    {TestArgs(b, d, dp, m, e) :
        b \in {None, 0, 1, 2}, d \in {NoneStr, "1"},
        dp \in {NoCube, Cube(1), PathCube("/p")},
        m \in {NoCube, Cube(2), PathCube("/m")},
        e \in {NoCube, Cube(1), PathCube("/e")}}

InitRun ==
    /\ dsetRegistry = [i \in {1} |-> DsetMeta(i)]
    /\ dataStorage = EmptyFn
    /\ bmkRegistry = [i \in {1, 2} |-> BmkMeta(i)]
    /\ bmkStorage \in {EmptyFn, BenchmarkGetStorage(EmptyFn, BmkMeta(1))}
    /\ cubeLinks \in {EmptyFn, Put(EmptyFn, 0, "/p")}
    /\ assocs = EmptyFn
    /\ reportMetadata = EmptyFn
    /\ reportRegistry = EmptyFn
    /\ profiles = DefaultProfiles
    /\ last = NoOp

NextRun ==
    \E a \in RUNARGS, ts \in CLOCKS, up \in BOOLEAN,
       h \in {"abc123", "xyz999"}, pok \in BOOLEAN :
        last = NoOp /\ CompatibilityTest(a, ts, "fa", up, h, pok)

SpecRun == InitRun /\ [][NextRun]_vars
\* Associations of two registered datasets, both cached, with two
\* registered benchmarks: dataset 1 was prepared with the cube of
\* benchmark 1, dataset 2 with the cube of benchmark 2.
PRINCIPALS == USERS \cup {"third"}

InitAssoc ==
    /\ dsetRegistry = [i \in {1, 2} |-> DsetMeta(i)]
    /\ dataStorage = [k \in {"1", "2"} |-> DsetMeta(ToInt(k))]
    /\ bmkRegistry = [i \in {1, 2} |-> BmkMeta(i)]
    /\ bmkStorage = EmptyFn
    /\ cubeLinks = EmptyFn
    /\ assocs = EmptyFn
    /\ reportMetadata = EmptyFn
    /\ reportRegistry = EmptyFn
    /\ profiles = DefaultProfiles
    /\ last = NoOp

NextAssoc ==
    \/ \E d \in 1..3, b \in 1..3, approval \in BOOLEAN, up \in BOOLEAN :
           Associate(d, b, approval, up)
    \/ \E id \in 1..MaxAssoc, who \in PRINCIPALS : Approve(id, who)
    \/ \E id \in 1..MaxAssoc, who \in PRINCIPALS : Reject(id, who)
    \/ \E lo \in BOOLEAN, mine \in BOOLEAN : AssociationAll(lo, mine)

SpecAssoc == InitAssoc /\ [][NextAssoc]_vars

\* Registration of a locally prepared dataset: the local storage holds the
\* unregistered datasets fa and fb under their generated_uid, the registry
\* holds dataset 1 or nothing.
InitReg ==
    /\ \E R \in SUBSET {1} : dsetRegistry = [i \in R |-> DsetMeta(i)]
    /\ dataStorage = [k \in FPS |-> LocalDset(k, FALSE)]
    /\ bmkRegistry = EmptyFn
    /\ bmkStorage = EmptyFn
    /\ cubeLinks = EmptyFn
    /\ assocs = EmptyFn
    /\ reportMetadata = EmptyFn
    /\ reportRegistry = EmptyFn
    /\ profiles = DefaultProfiles
    /\ last = NoOp

NextReg ==
    \/ \E k \in DOMAIN dataStorage, up \in BOOLEAN : DatasetUpload(k, up)
    \/ \E k \in GETKEYS, lo \in BOOLEAN, up \in BOOLEAN, wok \in BOOLEAN :
           DatasetGet(k, lo, up, wok)
    \/ \E lo \in BOOLEAN, up \in BOOLEAN : DatasetAll(lo, NoFilters, up)

SpecReg == InitReg /\ [][NextReg]_vars

\* Submission of preparation reports for datasets named a and b
InitReport ==
    /\ dsetRegistry = EmptyFn
    /\ dataStorage = EmptyFn
    /\ bmkRegistry = EmptyFn
    /\ bmkStorage = EmptyFn
    /\ cubeLinks = EmptyFn
    /\ assocs = EmptyFn
    /\ reportMetadata = EmptyFn
    /\ reportRegistry = EmptyFn
    /\ profiles = DefaultProfiles
    /\ last = NoOp

NextReport ==
    \E name \in {"a", "b"}, cube \in {1, 2}, approved \in BOOLEAN,
       answer \in BOOLEAN, up \in BOOLEAN, cube_ok \in BOOLEAN :
        ReportRun(name, cube, approved, answer, up, cube_ok)

SpecReport == InitReport /\ [][NextReport]_vars

\* Profile commands on the installed configuration
PROFILES == {"default", "p1"}

InitProfile ==
    /\ dsetRegistry = EmptyFn
    /\ dataStorage = EmptyFn
    /\ bmkRegistry = EmptyFn
    /\ bmkStorage = EmptyFn
    /\ cubeLinks = EmptyFn
    /\ assocs = EmptyFn
    /\ reportMetadata = EmptyFn
    /\ reportRegistry = EmptyFn
    /\ profiles = DefaultProfiles
    /\ last = NoOp

NextProfile ==
    \/ \E name \in PROFILES, args \in PROFILEARGS : ProfileCreate(name, args)
    \/ \E profile \in PROFILES, args \in PROFILEARGS :
           ProfileSet(profile, args)
    \/ \E profile \in PROFILES, keys \in SUBSET PROFILEKEYS :
           ProfileUnset(profile, keys)

SpecProfile == InitProfile /\ [][NextProfile]_vars

\* =================================================================
\* properties
\* =================================================================

\* the last operation listed the entities of a type
Listed(kind) == last.op = "all" /\ last.kind = kind

\* the entity carries a registry identifier (a locally prepared dataset
\* has none: its id is None)
HasIdentifier(e) == last.kind = "Dataset" => e.rec.id # None

\* C1: the list all() returns holds no identifier twice, and no entity
\* taken from local storage has the identifier of an entity the registry
\* returned.  (Entities without a registry identifier are told apart by
\* their generated_uid; None is not an identifier.)
C1_NoDuplicateIdentifier ==
    last.op = "all" =>
        \A i, j \in 1..Len(last.ents) :
            /\ i # j /\ HasIdentifier(last.ents[i])
                  => last.ents[i].rec.id # last.ents[j].rec.id
            /\ last.ents[i].src = "local" /\ last.ents[j].src = "remote"
                  => last.ents[i].rec.id # last.ents[j].rec.id

\* C1 witness: a listing of remote and local datasets in which a cached
\* copy of a remote dataset was left out
C1_Witness ==
    /\ Listed("Dataset") /\ ~last.local_only
    /\ \E i, j \in 1..Len(last.ents) :
           last.ents[i].src = "remote" /\ last.ents[j].src = "local"
    /\ \E k \in DOMAIN dataStorage :
           \E i \in 1..Len(last.ents) :
               /\ last.ents[i].src = "remote"
               /\ last.ents[i].rec.id = dataStorage[k].id

\* the identifiers all() returned, those the registry holds and those
\* local storage holds
ResultIds == {last.ents[j].rec.id : j \in 1..Len(last.ents)}
RegistryIds ==
    IF last.kind = "Dataset" THEN DOMAIN dsetRegistry
    ELSE {RegUid(i) : i \in DOMAIN bmkRegistry}
LocalIds ==
    IF last.kind = "Dataset"
    THEN {dataStorage[k].id : k \in DOMAIN dataStorage}
    ELSE DOMAIN bmkStorage

\* C2: all() with no restriction returns exactly the identifiers of the
\* registry together with those of local storage, for every entity type
C2_AllIsUnion ==
    last.op = "all" /\ ~last.local_only /\ last.filters = NoFilters /\ last.up
        => ResultIds = RegistryIds \cup LocalIds

\* get(uid) restricted to local storage (for a benchmark: with the registry
\* unreachable) returns the record with that identifier
DatasetCached(uid) ==
    LET r == DatasetLocalGet(dataStorage, uid)
    IN  r.status = "ok" /\ r.ents[1].rec.id = ToInt(uid)
BenchmarkCached(uid) ==
    LET r == BenchmarkResolve(bmkRegistry, bmkStorage, uid, FALSE, TRUE)
    IN  r.status = "ok" /\ r.ents[1].rec.id = uid

\* the last operation was a get the registry served
Fetched(kind) ==
    /\ last.op = "get" /\ last.kind = kind /\ last.status = "ok"
    /\ last.ents[1].src = "remote"

\* C3: once get(id) has fetched the record from the registry, every later
\* local get(id) returns the record with that id: the fetch leaves the
\* record in local storage, and no step takes a record out of it
C3_FetchedStaysCached ==
    [][/\ Fetched("Dataset")' => DatasetCached(last.key)'
       /\ Fetched("Benchmark")' => BenchmarkCached(last.key)'
       /\ \A uid \in GETKEYS :
              IsDigit(uid) /\ DatasetCached(uid) => DatasetCached(uid)'
       /\ \A uid \in BMKKEYS :
              BenchmarkCached(uid) => BenchmarkCached(uid)']_vars

\* C3 witness: the dataset the registry just served is retrievable from
\* local storage, as the record the registry sent
C3_Witness ==
    /\ Fetched("Dataset") /\ ~last.local_only
    /\ DatasetCached(last.key)
    /\ DatasetLocalGet(dataStorage, last.key).ents[1].rec = last.ents[1].rec

\* a get that addresses the registry: Dataset.get of a numeric uid without
\* local_only, every Benchmark.get
AsksRegistry ==
    /\ last.op = "get"
    /\ last.kind = "Dataset" => IsDigit(last.key) /\ ~last.local_only
\* the registry call of the last get failed with a retrieval error
RegistryFailed ==
    \/ ~last.up
    \/ IF last.kind = "Dataset" THEN ToInt(last.key) \notin DOMAIN dsetRegistry
       ELSE last.key.n \notin DOMAIN bmkRegistry
InLocalStorage ==
    IF last.kind = "Dataset" THEN last.key \in DOMAIN dataStorage
    ELSE last.key \in DOMAIN bmkStorage
LocalRecord ==
    IF last.kind = "Dataset" THEN dataStorage[last.key]
    ELSE bmkStorage[last.key]

C5_ListingSurvivesRegistryFailure ==
    Listed("Dataset") /\ Len(last.calls) > 0 /\ ~last.up =>
        /\ last.status = "ok"
        /\ last.ents = DatasetLocalAll(dataStorage)

\* C5 witness: the registry holds datasets, the listing call fails and the
\* result is the non-empty local list
C5_Witness ==
    /\ Listed("Dataset") /\ Len(last.calls) > 0 /\ ~last.up
    /\ DOMAIN dsetRegistry # {}
    /\ Len(last.ents) > 0 /\ last.status = "ok"

\* an approve or reject call has just been made on association id
Decided(id) == last'.op \in {"approve", "reject"} /\ last'.key = id

\* the status the call asked for
Asked == IF last'.op = "approve" THEN "APPROVED" ELSE "REJECTED"

\* C6: an association changes status at most once, from PENDING to APPROVED
\* or REJECTED; approve or reject on an association that is no longer
\* PENDING fails with InvalidTransition and leaves it as it was, and the
\* benchmark owner's call on a PENDING one sets the status asked for
C6_StatusChangesOnce ==
    [][\A id \in DOMAIN assocs :
          /\ assocs'[id].approval_status # assocs[id].approval_status
                => /\ assocs[id].approval_status = "PENDING"
                   /\ assocs'[id].approval_status \in {"APPROVED", "REJECTED"}
          /\ Decided(id) /\ assocs[id].approval_status # "PENDING"
                => /\ last'.status = "InvalidTransition"
                   /\ assocs'[id] = assocs[id]
          /\ (/\ Decided(id) /\ assocs[id].approval_status = "PENDING"
              /\ last'.who = bmkRegistry[assocs[id].benchmark].owner)
                => /\ last'.status = "ok"
                   /\ assocs'[id].approval_status = Asked]_vars

\* C6 witness: an approved association has just refused a reject
C6_Witness ==
    /\ last.op = "reject" /\ last.status = "InvalidTransition"
    /\ last.key \in DOMAIN assocs
    /\ assocs[last.key].approval_status = "APPROVED"

AssociateMismatch(l) ==
    /\ l.op = "associate" /\ Len(l.ents) = 2
    /\ l.ents[1].rec.data_preparation_mlcube
           # l.ents[2].rec.data_preparation_mlcube

\* C8: when the dataset's preparation cube differs from the benchmark's,
\* the association command fails with IncompatibleAssociation, makes no
\* associate call, does not ask the user for approval and creates no
\* association
C8_IncompatibleAssociationRefused ==
    [][AssociateMismatch(last') =>
          /\ last'.status = "IncompatibleAssociation"
          /\ \A j \in 1..Len(last'.calls) :
                 last'.calls[j] \notin {"associate_dset_benchmark",
                                        "request_association_approval"}
          /\ assocs' = assocs]_vars

\* C8 witness: the command has refused a dataset prepared with another
\* cube than that of the benchmark it fetched from the registry
C8_Witness ==
    /\ AssociateMismatch(last) /\ last.up
    /\ last.status = "IncompatibleAssociation"
    /\ last.ents[2].src = "remote"

\* the entity was created by a compatibility test
IsTestEntity(kind, rec) ==
    CASE kind = "Benchmark" -> IsTmp(rec.id)
      [] kind = "Dataset" -> rec.for_test
      [] kind = "Result" -> TRUE

\* C9: no temporary benchmark is in the result of Benchmark.all() and no
\* test dataset is in the result of Dataset.all()
C9_TestEntitiesNotListed ==
    last.op = "all" =>
        \A j \in 1..Len(last.ents) : ~IsTestEntity(last.kind, last.ents[j].rec)

\* C10: upload() of a test entity of any type fails with
\* InvalidArgumentError and makes no upload call to the registry
C10_TestUploadRefused ==
    last.op = "upload" /\ IsTestEntity(last.kind, last.ents[1].rec) =>
        last.status = "InvalidArgumentError" /\ last.calls = <<>>

\* the last operation was a compatibility test
Tested == last.op = "test"

\* the test refused its arguments before any resolution step
TestRefused == last.status = "InvalidArgument" /\ last.steps = <<"validate">>

\* the three cubes were all supplied
AllCubes(a) == a.data_prep # NoCube /\ a.model # NoCube /\ a.evaluator # NoCube

\* C11 as stated: the test accepts its arguments exactly when a benchmark
\* identifier or all three cubes are supplied, whatever the dataset
\* identifier; otherwise it fails with InvalidArgument before any
\* resolution step
C11_CubesSufficeWithoutDataset ==
    Tested =>
        /\ last.args.benchmark_uid # None \/ AllCubes(last.args)
              => last.status # "InvalidArgument"
        /\ ~(last.args.benchmark_uid # None \/ AllCubes(last.args))
              => TestRefused

\* C11 amended: the test accepts its arguments exactly when a benchmark
\* identifier is supplied or the dataset identifier and all three cubes are
\* supplied; otherwise it fails with InvalidArgument before any resolution
\* step
C11_ValidateNeedsDataset ==
    Tested =>
        LET complete == /\ last.args.data_uid # NoneStr
                        /\ AllCubes(last.args)
        IN  /\ last.args.benchmark_uid # None \/ complete
                  => last.status # "InvalidArgument"
            /\ ~(last.args.benchmark_uid # None \/ complete) => TestRefused

\* C11 witness: no benchmark, all three cubes but no dataset identifier, and
\* the test has refused the arguments
C11_Witness ==
    /\ Tested /\ TestRefused
    /\ last.args.benchmark_uid = None /\ AllCubes(last.args)
    /\ last.args.data_uid = NoneStr

\* the run made the step
Did(step) == \E j \in 1..Len(last.steps) : last.steps[j] = step

\* the hash the benchmark of the run expects of its demo dataset
ExpectedHash == last.benchmark.demo_dataset_tarball_hash

\* C12: without a supplied dataset, a downloaded archive whose hash differs
\* from a non-empty expected hash fails the run with IntegrityError before
\* the archive is extracted and before data preparation; with an empty
\* expected hash, or an equal one, the archive is extracted and prepared
C12_DemoHashChecked ==
    Tested /\ last.args.data_uid = NoneStr /\ Did("download")
           /\ last.status # "CommunicationRetrievalError" =>
        IF ExpectedHash # "" /\ last.file_hash # ExpectedHash
        THEN /\ last.status = "IntegrityError"
             /\ ~Did("untar") /\ ~Did("prepare") /\ ~Did("pipeline")
             /\ dataStorage = EmptyFn
        ELSE last.status # "IntegrityError" /\ Did("untar") /\ Did("prepare")

\* C12 witness: the expected hash is abc123, the archive hashes to xyz999
\* and the run has failed with IntegrityError
C12_Witness ==
    /\ Tested /\ last.args.data_uid = NoneStr
    /\ ExpectedHash = "abc123" /\ last.file_hash = "xyz999"
    /\ last.status = "IntegrityError"

\* the statuses with which validation, benchmark and cube resolution or
\* dataset resolution fail
ResolutionFailures ==
    {"InvalidArgument", "InvalidArgumentError", "FileExistsError",
     "CommunicationRetrievalError", "IntegrityError"}

\* C13: a run invokes the evaluation pipeline at most once, as its last
\* step, after validation accepted the arguments, the benchmark and the
\* cubes were resolved and the dataset was resolved; a run in which one of
\* these failed never invokes it
C13_PipelineOnceAfterResolution ==
    Tested =>
        /\ Cardinality({j \in 1..Len(last.steps) :
                            last.steps[j] = "pipeline"}) <= 1
        /\ Did("pipeline") =>
              /\ last.steps[Len(last.steps)] = "pipeline"
              /\ last.steps[1] = "validate" /\ ~TestInvalid(last.args)
              /\ Did("set_cube_uid")
              /\ Did("get_benchmark") \/ Did("tmp")
              /\ last.data_uid # NoneStr
              /\ last.args.data_uid = NoneStr => Did("prepare")
              /\ last.status \in {"ok", "ExecutionError"}
        /\ last.status \in ResolutionFailures => ~Did("pipeline")

\* C13 witness: the benchmark was fetched, the demo dataset prepared and
\* the pipeline then ran, once
C13_Witness ==
    /\ Tested /\ last.status = "ok"
    /\ last.steps = <<"validate", "get_benchmark", "set_cube_uid",
                      "download", "untar", "prepare", "pipeline">>

\* the cube slots of a run: the supplied value and the value afterwards
Slots ==
    {<<last.args.data_prep, last.data_prep>>, <<last.args.model, last.model>>,
     <<last.args.evaluator, last.evaluator>>}

\* C14: after cube resolution every slot that was given a filesystem path
\* holds an identifier instead of the path, the path is linked in the cubes
\* storage, and the benchmark of the run names no path
C14_PathSlotsHoldTemporaryIds ==
    Tested /\ Did("set_cube_uid") /\ last.status # "FileExistsError" =>
        /\ \A sl \in Slots :
              IsLocalPath(sl[1]) =>
                  /\ ~IsLocalPath(sl[2])
                  /\ \E k \in DOMAIN cubeLinks : cubeLinks[k] = sl[1].path
        /\ \A c \in {last.benchmark.data_preparation_mlcube,
                      last.benchmark.reference_model_mlcube,
                      last.benchmark.data_evaluator_mlcube} : ~IsLocalPath(c)

\* C15: a run without a benchmark identifier leaves the benchmarks storage
\* as it found it
C15_TmpBenchmarkNotPersisted ==
    [][last'.op = "test" /\ last'.args.benchmark_uid = None
          => bmkStorage' = bmkStorage]_vars

\* the associations of the current user as the registry holds them
UserAssociations == {assocs[id] : id \in {i \in DOMAIN assocs :
                                           assocs[i].initiated_by = Me}}

\* C16: listing associations with local_only completes, returns the empty
\* list and makes no registry call
C16_LocalOnlyAssociationsEmpty ==
    Listed("Association") /\ last.local_only =>
        last.status = "ok" /\ last.ents = <<>> /\ last.calls = <<>>

\* C17: listing the current user's associations without local_only
\* completes and returns the user's associations held by the registry
C17_UserAssociationsListed ==
    Listed("Association") /\ ~last.local_only /\ last.mine_only =>
        /\ last.status = "ok"
        /\ {last.ents[j].rec : j \in 1..Len(last.ents)} = UserAssociations

\* C18: local dataset storage holds at most one record per generated_uid,
\* and the record of a dataset the registry has given an identifier is the
\* one stored under that identifier
C18_OneRecordPerFingerprint ==
    /\ \A k1, k2 \in DOMAIN dataStorage :
          dataStorage[k1].generated_uid = dataStorage[k2].generated_uid
              => k1 = k2
    /\ \A k \in DOMAIN dataStorage, i \in DOMAIN dsetRegistry :
          dsetRegistry[i].generated_uid = dataStorage[k].generated_uid
              => k # dataStorage[k].generated_uid

\* C19: after a successful upload of a dataset that is not a test dataset,
\* its local record carries the identifier the registry returned
C19_UploadMergedIntoLocalRecord ==
    /\ last.op = "upload" /\ last.kind = "Dataset" /\ last.status = "ok"
    /\ ~last.ents[1].rec.for_test
    => \E k \in DOMAIN dataStorage : dataStorage[k] = last.ents[2].rec

\* C20: a get that fetched the record from the registry returns it, whether
\* or not the record could be written to local storage
C20_GetSurvivesWriteFailure ==
    AsksRegistry /\ ~RegistryFailed =>
        /\ last.status = "ok"
        /\ Len(last.ents) = 1 /\ last.ents[1].src = "remote"

\* C21: all(local_only=True) completes, returns exactly the entities of
\* local storage and makes no call to the registry, for datasets and for
\* benchmarks
C21_LocalOnlyReturnsLocal ==
    last.op = "all" /\ last.kind \in {"Dataset", "Benchmark"}
                    /\ last.local_only =>
        /\ last.status = "ok"
        /\ last.calls = <<>>
        /\ ResultIds = LocalIds
        /\ \A j \in 1..Len(last.ents) : last.ents[j].src = "local"

\* the identifiers of the current user's entities in the registry
UserRegistryIds ==
    IF last.kind = "Dataset"
    THEN {i \in DOMAIN dsetRegistry : dsetRegistry[i].owner = Me}
    ELSE {RegUid(i) : i \in {n \in DOMAIN bmkRegistry :
                                 bmkRegistry[n].owner = Me}}

\* C22: all() with the owner filter set to the current user, the registry
\* reachable, returns exactly the user's entities of the registry together
\* with the entities of local storage
C22_MineOnlyReturnsUserAndLocal ==
    /\ last.op = "all" /\ last.kind \in {"Dataset", "Benchmark"}
    /\ ~last.local_only /\ last.up
    /\ last.filters = [owner |-> Me, mlcube |-> NoCube]
    => /\ last.status = "ok"
       /\ ResultIds = UserRegistryIds \cup LocalIds

\* the value a slot must hold: the supplied one, else the benchmark's
Adopted(supplied, declared) == IF supplied # NoCube THEN supplied ELSE declared

Submitted(key) == {i \in DOMAIN reportRegistry : reportRegistry[i] = key}

C25_DeclinedReportNotSent ==
    [][/\ last'.op = "report" /\ last'.status = "ok"
       /\ last'.key \notin DOMAIN reportMetadata
       /\ ~last'.approved /\ ~last'.answer
       => /\ last'.returned = "False"
          /\ last'.prompted
          /\ last'.calls = <<>>
          /\ reportMetadata' = reportMetadata
          /\ reportRegistry' = reportRegistry]_vars

\* C25 witness: the prompt was shown and declined, nothing was stored
C25_Witness ==
    /\ last.op = "report" /\ last.returned = "False" /\ last.prompted
    /\ ~last.answer /\ last.key \notin DOMAIN reportMetadata

\* position of the first occurrence of a call in a log, 0 when absent
CallIndex(calls, name) ==
    IF \E k \in DOMAIN calls : calls[k] = name
    THEN CHOOSE k \in DOMAIN calls :
             calls[k] = name /\ \A m \in DOMAIN calls : calls[m] = name => k <= m
    ELSE 0

\* C26: associate_dset_benchmark is called only after
\* request_association_approval returned true in the same run, a declined
\* run makes no association call, and the registry gains an association
\* only in a run the owner consented to
C26_AssociationNeedsConsent ==
    /\ [](last.op = "associate" =>
            /\ CallIndex(last.calls, "associate_dset_benchmark") > 0 =>
                   /\ last.approval
                   /\ CallIndex(last.calls, "request_association_approval") > 0
                   /\ CallIndex(last.calls, "request_association_approval")
                        < CallIndex(last.calls, "associate_dset_benchmark")
            /\ ~last.approval =>
                   CallIndex(last.calls, "associate_dset_benchmark") = 0)
    /\ [][DOMAIN assocs' # DOMAIN assocs =>
              last'.op = "associate" /\ last'.approval]_vars

\* C26 witness: the owner was asked and declined, no association was made
C26_Witness ==
    /\ last.op = "associate" /\ ~last.approval
    /\ CallIndex(last.calls, "request_association_approval") > 0
    /\ CallIndex(last.calls, "associate_dset_benchmark") = 0

\* the paths supplied for the cube slots of the run that ends in last'
PathSlots(r) ==
    {v.path : v \in {c \in {r.args.data_prep, r.args.model, r.args.evaluator} :
                         IsLocalPath(c)}}

\* C27: in a run that starts with no link in the cubes storage, every
\* slot supplied as a path is linked under an identifier of its own and no
\* link creation fails, whatever the clock at which each slot is resolved
C27_PathSlotsDistinctIds ==
    [][/\ last'.op = "test" /\ cubeLinks = EmptyFn
       /\ \E j \in 1..Len(last'.steps) : last'.steps[j] = "set_cube_uid"
       => /\ last'.status # "FileExistsError"
          /\ \A q \in PathSlots(last') :
                 \E k \in DOMAIN cubeLinks' : cubeLinks'[k] = q]_vars

\* the run passed validation and resolved no registered benchmark
TmpBranch ==
    Tested /\ Len(last.steps) >= 2 /\ last.steps[2] = "set_cube_uid"

\* C28: a run that passes validation and takes the temporary-benchmark
\* branch has three non-null cube slots, for every benchmark_uid, 0 included
C28_TmpBranchHasAllCubes ==
    TmpBranch =>
        /\ last.data_prep # NoCube
        /\ last.model # NoCube
        /\ last.evaluator # NoCube

\* a Benchmark.get whose get_benchmark call returned the record
BenchmarkFetched ==
    /\ last.op = "get" /\ last.kind = "Benchmark"
    /\ last.up /\ ~IsTmp(last.key) /\ last.key.n \in DOMAIN bmkRegistry

\* C29: a Benchmark.get whose fetch of the benchmark succeeded returns the
\* registry's record (the write to local storage succeeding); the local
\* copy or the not-found error appear only when that fetch failed
C29_FetchedBenchmarkReturned ==
    BenchmarkFetched /\ last.status # "OSError" =>
        /\ last.status = "ok"
        /\ Len(last.ents) = 1 /\ last.ents[1].src = "remote"
        /\ last.ents[1].rec.id = last.key

\* C30: a create or set that passes a key outside the customizable
\* parameters fails and leaves the configuration as it was, a create of an
\* existing name leaves the configuration as it was, and every stored
\* profile holds only customizable parameters
C30_ProfilesHoldCustomizableOnly ==
    /\ [](\A n \in DOMAIN profiles :
              DOMAIN profiles[n] \subseteq customizable_params)
    /\ [][/\ last'.op \in {"create", "set"}
          /\ ~(DOMAIN last'.args \subseteq customizable_params)
          => last'.status = "InvalidArguments" /\ profiles' = profiles]_vars
    /\ [][last'.op = "create" /\ last'.name \in DOMAIN profiles
          => last'.status # "ok" /\ profiles' = profiles]_vars

\* C30 witness: a set with a key that is not customizable was refused while
\* a created profile holds a parameter
C30_Witness ==
    /\ last.op = "set" /\ last.status = "InvalidArguments"
    /\ "bad" \in DOMAIN last.args
    /\ "p1" \in DOMAIN profiles /\ DOMAIN profiles["p1"] # {}
====
